---- MODULE Spec2Model ----
(***************************************************************************)
(* Model of package gonfig: locating a configuration file (FindConfig /   *)
(* findConfig), reading it, unmarshaling it into the caller's object and  *)
(* validating it (ReadFoundConfig, ReadConfig), in the single-error       *)
(* variant (gonfig.go) and in the multi-error variant (Validator[T]).     *)
(*                                                                         *)
(* The file system is the environment: it may change between the system   *)
(* calls of one ReadConfig call (between the stat and the read).          *)
(***************************************************************************)
EXTENDS Integers, Sequences, FiniteSets, TLC

\* ------------------------------------------------------------------ bounds
MaxPaths == 3        \* longest fallback list
MaxErrs == 2         \* longest collection a Validator returns
MaxFsChanges == 2    \* file system changes during one call

\* ------------------------------------------------------------- the domain
FilePaths == {"a", "b"}
Paths == FilePaths \cup {""}
Contents == {"x", "y"}
\* a path is missing, in a directory that cannot be searched (hidden), present
\* but unreadable (locked), or a readable file with bytes
FileStates == {"missing", "hidden", "locked"} \cup Contents
Violations == {"v1", "v2"}

RECURSIVE SeqsUpTo(_, _)
SeqsUpTo(S, n) ==
    IF n = 0 THEN {<<>>}
    ELSE LET shorter == SeqsUpTo(S, n - 1)
         IN shorter \cup {Append(s, e) : s \in {t \in shorter : Len(t) = n - 1}, e \in S}

\* ------------------------------------------------------------- error values
\* an error is its message, the path the message names (%s) and the cause it
\* wraps (%w); Nil is Go's nil error
Nil == [msg |-> "nil", path |-> "", cause |-> ""]
NotFoundError == [msg |-> "could not locate configuration file", path |-> "", cause |-> ""]
StatError(pth, cause) == [msg |-> "could not stat configuration file", path |-> pth, cause |-> cause]
ReadErrorAsStat(pth, cause) == [msg |-> "could not stat configuration file", path |-> pth, cause |-> cause]
ReadError(pth, cause) == [msg |-> "unable to read configuration file", path |-> pth, cause |-> cause]
UnmarshalError(pth, cause) == [msg |-> "unable to unmarshal configuration file", path |-> pth, cause |-> cause]
ValidationError(v) == [msg |-> "validation", path |-> "", cause |-> v]

\* --------------------------------------------------------------- os package
\* os.Stat: "" when the stat succeeds, else the errno; the empty path names
\* no file
Stat(f, pth) ==
    IF pth = "" THEN "ENOENT"
    ELSE IF f[pth] = "missing" THEN "ENOENT"
    ELSE IF f[pth] = "hidden" THEN "EACCES" ELSE ""

\* os.ReadFile: the bytes, or the errno
ReadFile(f, pth) ==
    IF pth = "" THEN [content |-> "", err |-> "ENOENT"]
    ELSE IF f[pth] = "missing" THEN [content |-> "", err |-> "ENOENT"]
    ELSE IF f[pth] \in {"hidden", "locked"} THEN [content |-> "", err |-> "EACCES"]
    ELSE [content |-> f[pth], err |-> ""]

\* what a successful unmarshal of the bytes leaves in the target object
Decode(bytes) == IF bytes = "x" THEN "cfg_x" ELSE "cfg_y"

\* ------------------------------------------------------------- FindConfig
\* the loop `for _, p := range paths`: cur is the local `path`, st the stats
\* made so far
\* variant of the loop that stops at the first entry that stats
RECURSIVE ScanPathsFirstWins(_, _, _, _, _)
ScanPathsFirstWins(pths, f, i, cur, st) ==
    IF i > Len(pths) THEN [path |-> cur, statted |-> st]
    ELSE IF Stat(f, pths[i]) # ""
         THEN ScanPathsFirstWins(pths, f, i + 1, cur, Append(st, pths[i]))
         ELSE [path |-> pths[i], statted |-> Append(st, pths[i])]

\* variant of the loop without the `continue` on a failed stat
RECURSIVE ScanPathsNoSkip(_, _, _, _, _)
ScanPathsNoSkip(pths, f, i, cur, st) ==
    IF i > Len(pths) THEN [path |-> cur, statted |-> st]
    ELSE ScanPathsNoSkip(pths, f, i + 1, pths[i], Append(st, pths[i]))

RECURSIVE ScanPaths(_, _, _, _, _)
ScanPaths(pths, f, i, cur, st) ==
    IF i > Len(pths) THEN [path |-> cur, statted |-> st]
    ELSE IF Stat(f, pths[i]) # ""
         THEN ScanPaths(pths, f, i + 1, cur, Append(st, pths[i]))
         ELSE ScanPaths(pths, f, i + 1, pths[i], Append(st, pths[i]))

\* variant that scans the fallbacks after a successful stat of the explicit path
FindConfigScansAnyway(pth, pths, f) ==
    IF pth # "" /\ Stat(f, pth) # ""
    THEN [path |-> "", err |-> StatError(pth, Stat(f, pth)), statted |-> <<pth>>]
    ELSE LET r == ScanPaths(pths, f, 1, pth, IF pth = "" THEN <<>> ELSE <<pth>>)
         IN IF r.path = ""
            THEN [path |-> "", err |-> NotFoundError, statted |-> r.statted]
            ELSE [path |-> r.path, err |-> Nil, statted |-> r.statted]

\* variant that falls back to the scan when the explicit path does not stat
FindConfigFallsBack(pth, pths, f) ==
    IF pth # "" /\ Stat(f, pth) = ""
    THEN [path |-> pth, err |-> Nil, statted |-> <<pth>>]
    ELSE LET r == ScanPaths(pths, f, 1, "", IF pth = "" THEN <<>> ELSE <<pth>>)
         IN IF r.path = ""
            THEN [path |-> "", err |-> NotFoundError, statted |-> r.statted]
            ELSE [path |-> r.path, err |-> Nil, statted |-> r.statted]

FindConfig(pth, pths, f) ==
    IF pth = ""
    THEN LET r == ScanPaths(pths, f, 1, pth, <<>>)
         IN IF r.path = ""
            THEN [path |-> "", err |-> NotFoundError, statted |-> r.statted]
            ELSE [path |-> r.path, err |-> Nil, statted |-> r.statted]
    ELSE IF Stat(f, pth) # ""
         THEN [path |-> "", err |-> StatError(pth, Stat(f, pth)), statted |-> <<pth>>]
         ELSE [path |-> pth, err |-> Nil, statted |-> <<pth>>]

\* --------------------------------------------- ReadConfig / ReadFoundConfig
\* `if err != nil` after FindConfig
FindFailedIgnored(r) == FALSE
FindFailed(r) == r.err # Nil

\* `if err != nil` after os.ReadFile
ReadFailedIgnored(r) == FALSE
ReadFailed(r) == r.err # ""

\* `if err != nil` after unmarshal
UnmarshalFailedIgnored(e) == FALSE
UnmarshalFailed(e) == e # ""

\* `return path, validator.Validate(*c)`: the collection is returned as it is
ValidatorResultFirstOnly(es) == IF es = <<>> THEN <<>> ELSE <<es[1]>>
ValidatorResult(es) == es

\* ------------------------------------------------------------------- state
VARIABLES
    fs,         \* the file system: path -> file state
    fsChanges,  \* number of file system changes so far
    pc,         \* position of the call: idle, read, unmarshal, validate, done
    op,         \* the entry point called
    variant,    \* "single" (ValidateFunc) or "multi" (Validator)
    argPath,    \* argument path
    argPaths,   \* argument paths / searchPaths
    path,       \* the local variable path after resolution
    content,    \* the local variable content
    c,          \* the caller's configuration object *c
    found,      \* what FindConfig returned to its caller
    retPath,    \* returned string
    retErr,     \* returned error (single variant, FindConfig)
    retErrs,    \* returned []error (multi variant)
    statted,    \* paths passed to os.Stat, in order
    log         \* calls made after resolution: read, unmarshal, validate

vars == <<fs, fsChanges, pc, op, variant, argPath, argPaths, path, content, c,
          found, retPath, retErr, retErrs, statted, log>>

ZeroConfig == "zero"
NoFound == [path |-> "", err |-> Nil, statted |-> <<>>]

Init ==
    /\ fs \in [FilePaths -> FileStates]
    /\ fsChanges = 0
    /\ pc = "idle"
    /\ op = "none"
    /\ variant = "single"
    /\ argPath = ""
    /\ argPaths = <<>>
    /\ path = ""
    /\ content = ""
    /\ c = ZeroConfig
    /\ found = NoFound
    /\ retPath = ""
    /\ retErr = Nil
    /\ retErrs = <<>>
    /\ statted = <<>>
    /\ log = <<>>

\* the environment: another process changes a file while a call is running
FsChange ==
    /\ pc \in {"read", "unmarshal", "validate"}
    /\ fsChanges < MaxFsChanges
    /\ \E p \in FilePaths, s \in FileStates :
          /\ s # fs[p]
          /\ fs' = [fs EXCEPT ![p] = s]
    /\ fsChanges' = fsChanges + 1
    /\ UNCHANGED <<pc, op, variant, argPath, argPaths, path, content, c, found,
                   retPath, retErr, retErrs, statted, log>>

\* FindConfig / findConfig called on its own
CallFindConfig ==
    /\ pc = "idle"
    /\ \E v \in {"single", "multi"}, p \in Paths, ps \in SeqsUpTo(Paths, MaxPaths) :
          LET r == FindConfig(p, ps, fs)
          IN /\ variant' = v
             /\ argPath' = p
             /\ argPaths' = ps
             /\ found' = r
             /\ statted' = r.statted
             /\ path' = r.path
             /\ retPath' = r.path
             /\ retErr' = r.err
    /\ op' = "FindConfig"
    /\ pc' = "done"
    /\ UNCHANGED <<fs, fsChanges, content, c, retErrs, log>>

\* ReadFoundConfig called on its own with a path the caller resolved
CallReadFoundConfig ==
    /\ pc = "idle"
    /\ \E p \in Paths :
          /\ argPath' = p
          /\ path' = p
    /\ op' = "ReadFoundConfig"
    /\ variant' = "single"
    /\ pc' = "read"
    /\ UNCHANGED <<fs, fsChanges, argPaths, content, c, found, retPath, retErr,
                   retErrs, statted, log>>

\* ReadConfig up to and including the check of FindConfig's error
ReadConfigFind(v, p, ps) ==
    LET r == FindConfig(p, ps, fs)
    IN /\ variant' = v
       /\ argPath' = p
       /\ argPaths' = ps
       /\ found' = r
       /\ statted' = r.statted
       /\ path' = r.path
       /\ IF FindFailed(r)
          THEN /\ pc' = "done"
               /\ retPath' = ""
               /\ retErr' = IF v = "single" THEN r.err ELSE Nil
               /\ retErrs' = IF v = "multi" THEN <<r.err>> ELSE <<>>
          ELSE /\ pc' = "read"
               /\ UNCHANGED <<retPath, retErr, retErrs>>

CallReadConfig ==
    /\ pc = "idle"
    /\ \E v \in {"single", "multi"}, p \in Paths, ps \in SeqsUpTo(Paths, MaxPaths) :
          ReadConfigFind(v, p, ps)
    /\ op' = "ReadConfig"
    /\ UNCHANGED <<fs, fsChanges, content, c, log>>

\* what the callers of ReadFoundConfig return when it has returned err
\* (gonfig.go: `return path, ReadFoundConfig(...)`)
ReturnSingle(err) ==
    /\ pc' = "done"
    /\ retErr' = err
    /\ retPath' = IF op = "ReadConfig" THEN path ELSE ""
    /\ UNCHANGED retErrs

\* content, err := os.ReadFile(path)
ReadStep ==
    /\ pc = "read"
    /\ LET r == ReadFile(fs, path)
       IN /\ log' = Append(log, [call |-> "read", arg |-> path, out |-> r.content, err |-> r.err])
          /\ IF ReadFailed(r)
             THEN /\ IF variant = "single"
                     THEN ReturnSingle(ReadError(path, r.err))
                     ELSE /\ pc' = "done"
                          /\ retPath' = ""
                          /\ retErrs' = <<ReadError(path, r.err)>>
                          /\ UNCHANGED retErr
                  /\ UNCHANGED content
             ELSE /\ content' = r.content
                  /\ pc' = "unmarshal"
                  /\ UNCHANGED <<retPath, retErr, retErrs>>
    /\ UNCHANGED <<fs, fsChanges, op, variant, argPath, argPaths, path, c, found, statted>>

\* err = unmarshal(content, c): the caller's function either fills the
\* object from the bytes, or fails and leaves it untouched or half written
UnmarshalStep ==
    /\ pc = "unmarshal"
    /\ \E e \in {"", "syntax"} :
          /\ IF e = "" THEN c' = Decode(content) ELSE c' \in {c, "partial"}
          /\ log' = Append(log, [call |-> "unmarshal", arg |-> content, out |-> c', err |-> e])
          /\ IF UnmarshalFailed(e)
             THEN IF variant = "single"
                  THEN ReturnSingle(UnmarshalError(path, e))
                  ELSE /\ pc' = "done"
                       /\ retPath' = ""
                       /\ retErrs' = <<UnmarshalError(path, e)>>
                       /\ UNCHANGED retErr
             ELSE /\ pc' = "validate"
                  /\ UNCHANGED <<retPath, retErr, retErrs>>
    /\ UNCHANGED <<fs, fsChanges, op, variant, argPath, argPaths, path, content, found, statted>>

\* return validate(*c)  /  return path, validator.Validate(*c)
ValidateStep ==
    /\ pc = "validate"
    /\ IF variant = "single"
       THEN \E e \in {Nil} \cup {ValidationError(v) : v \in Violations} :
               /\ log' = Append(log, [call |-> "validate", arg |-> c, out |-> <<e>>, err |-> ""])
               /\ ReturnSingle(e)
       ELSE \E vs \in SeqsUpTo(Violations, MaxErrs) :
               LET es == [i \in 1..Len(vs) |-> ValidationError(vs[i])]
               IN /\ log' = Append(log, [call |-> "validate", arg |-> c, out |-> es, err |-> ""])
                  /\ pc' = "done"
                  /\ retPath' = path
                  /\ retErrs' = ValidatorResult(es)
                  /\ UNCHANGED retErr
    /\ UNCHANGED <<fs, fsChanges, op, variant, argPath, argPaths, path, content, c, found, statted>>

Next ==
    \/ FsChange
    \/ CallFindConfig
    \/ CallReadFoundConfig
    \/ CallReadConfig
    \/ ReadStep
    \/ UnmarshalStep
    \/ ValidateStep

Spec == Init /\ [][Next]_vars

\* ------------------------------------------------------------ vocabulary
\* os.Stat on the entry succeeds
Statable(p) == p \in FilePaths /\ fs[p] \notin {"missing", "hidden"}

\* the errno of a stat of an entry that is not statable
StatErrno(p) == IF p \in FilePaths /\ fs[p] = "hidden" THEN "EACCES" ELSE "ENOENT"

\* indices of the fallback entries that stat
StatableIdx == {i \in 1..Len(argPaths) : Statable(argPaths[i])}

Last(S) == CHOOSE i \in S : \A j \in S : j <= i

\* a resolution has been made and the file system is still the one it saw
Resolved == op \in {"FindConfig", "ReadConfig"} /\ fsChanges = 0

\* the call has returned
Returned == pc = "done"

\* the error(s) the call returned, as a collection
Errs == IF variant = "multi" /\ op # "FindConfig"
        THEN retErrs
        ELSE IF retErr = Nil THEN <<>> ELSE <<retErr>>

Succeeded == Errs = <<>>

NoError(out) == \A i \in 1..Len(out) : out[i] = Nil

Pipeline == op \in {"ReadFoundConfig", "ReadConfig"}

\* ------------------------------------------------------------------ C1
\* C1: with an empty explicit path and at least one statable fallback entry,
\* the resolver returns, without error, the statable entry of greatest index;
\* every entry is statted once, in order, failures being skipped.
C1_LastStatableWins ==
    (Resolved /\ argPath = "" /\ StatableIdx # {}) =>
        /\ found.err = Nil
        /\ found.path = argPaths[Last(StatableIdx)]
        /\ statted = argPaths
        /\ op = "FindConfig" => (retPath = found.path /\ retErr = Nil)

C1_Witness ==
    /\ Resolved /\ argPath = ""
    /\ \E i, j, k \in 1..Len(argPaths) :
          /\ i < j /\ i \in StatableIdx /\ j \in StatableIdx
          /\ argPaths[i] # argPaths[j]
          /\ k \notin StatableIdx
    /\ found.path = argPaths[Last(StatableIdx)]

\* ------------------------------------------------------------------ C2
\* C2: a non-empty explicit path that stats is returned unchanged with no
\* error whatever the fallback list is, and only that path is statted.
C2_ExplicitPathReturned ==
    (Resolved /\ argPath # "" /\ Statable(argPath)) =>
        /\ found.path = argPath
        /\ found.err = Nil
        /\ statted = <<argPath>>
        /\ op = "FindConfig" => (retPath = argPath /\ retErr = Nil)

C2_Witness ==
    /\ Resolved /\ argPath # "" /\ Statable(argPath)
    /\ \E i \in StatableIdx : argPaths[i] # argPath
    /\ found.path = argPath

\* ------------------------------------------------------------------ C3
\* C3: a non-empty explicit path that does not stat yields the error
\* "could not stat configuration file" naming the path and wrapping the stat
\* error, an empty path, and no stat of any fallback entry.
C3_ExplicitPathInaccessible ==
    (Resolved /\ argPath # "" /\ ~Statable(argPath)) =>
        /\ found.path = ""
        /\ found.err = StatError(argPath, StatErrno(argPath))
        /\ statted = <<argPath>>
        /\ op = "FindConfig" => (retPath = "" /\ retErr = found.err)

C3_Witness ==
    /\ Resolved /\ argPath # "" /\ ~Statable(argPath)
    /\ StatableIdx # {}
    /\ found.err.msg = "could not stat configuration file"

\* ------------------------------------------------------------------ C4
\* C4: with an empty explicit path the resolver fails with the plain
\* "could not locate configuration file" error and an empty path exactly when
\* no fallback entry is statable.
C4_NotFoundIffNoneStatable ==
    (Resolved /\ argPath = "") =>
        /\ (found.err = NotFoundError) <=> (StatableIdx = {})
        /\ found.err # Nil => (found.err = NotFoundError /\ found.path = "")
        /\ op = "FindConfig" => (retPath = found.path /\ retErr = found.err)

C4_Witness ==
    /\ Resolved /\ argPath = ""
    /\ \E i, j \in 1..Len(argPaths) : argPaths[i] = "" /\ argPaths[j] \in FilePaths
    /\ StatableIdx = {}
    /\ found.err = NotFoundError

\* ------------------------------------------------------------------ C5
\* C5: ReadConfig returns the non-empty resolved path exactly when it
\* succeeded, and the empty string whenever it failed.
C5_PathOrError ==
    (Returned /\ op = "ReadConfig") =>
        /\ Succeeded <=> retPath # ""
        /\ Succeeded => retPath = found.path

\* ------------------------------------------------------------------ C6
\* C6: a call that returns no error has read the file, then unmarshaled the
\* bytes read exactly once without error, then validated the unmarshaled
\* object exactly once without error; a failed stage never yields success.
C6_SuccessOnlyAfterAllStages ==
    (Returned /\ Pipeline) =>
        /\ Succeeded =>
              /\ Len(log) = 3
              /\ log[1].call = "read" /\ log[1].err = ""
              /\ log[2].call = "unmarshal" /\ log[2].err = ""
              /\ log[2].arg = log[1].out
              /\ log[3].call = "validate" /\ NoError(log[3].out)
              /\ log[3].arg = log[2].out
              /\ c = Decode(log[1].out)
        /\ (\E i \in 1..Len(log) :
               \/ log[i].err # ""
               \/ log[i].call = "validate" /\ ~NoError(log[i].out)) => ~Succeeded

C6_Witness ==
    /\ Returned /\ Pipeline /\ Succeeded
    /\ Len(log) = 3
    /\ c = "cfg_x"

\* ------------------------------------------------------------------ C7
\* C7: when the read succeeded and unmarshal returned an error, the call
\* fails with "unable to unmarshal configuration file" naming the path and
\* wrapping that error, and validate is not called.
C7_UnmarshalFailureSkipsValidate ==
    (Pipeline /\ \E i \in 1..Len(log) : log[i].call = "unmarshal" /\ log[i].err # "") =>
        /\ Returned
        /\ Len(log) = 2
        /\ log[1].call = "read" /\ log[1].err = ""
        /\ \A i \in 1..Len(log) : log[i].call # "validate"
        /\ Errs = <<UnmarshalError(path, log[2].err)>>

C7_Witness ==
    /\ op = "ReadFoundConfig" /\ Returned
    /\ Len(log) = 2 /\ log[2].call = "unmarshal" /\ log[2].err = "syntax"
    /\ c = "partial"

\* ------------------------------------------------------------------ C8
\* C8: when the file that resolution statted is gone at the read, ReadConfig
\* fails with "unable to read configuration file" naming the path and
\* wrapping the read error, not with a resolution error, and neither
\* unmarshal nor validate is called.
C8_RemovedBeforeRead ==
    (op = "ReadConfig" /\ found.err = Nil /\ log # <<>> /\ log[1].err = "ENOENT") =>
        /\ Returned
        /\ Len(log) = 1
        /\ Errs = <<ReadError(found.path, "ENOENT")>>
        /\ Errs[1].msg = "unable to read configuration file"

C8_Witness ==
    /\ op = "ReadConfig" /\ Returned
    /\ found.err = Nil /\ found.path \in FilePaths
    /\ fsChanges > 0 /\ fs[found.path] = "missing"
    /\ Len(log) = 1 /\ log[1].err = "ENOENT"

\* ------------------------------------------------------------------ C9
\* C9: in the multi-error variant, once locate, read and unmarshal have
\* succeeded, ReadConfig returns exactly the collection the validator
\* returned, in the same order; an empty collection is a success.
C9_ValidatorCollectionAsIs ==
    (Returned /\ op = "ReadConfig" /\ variant = "multi" /\ Len(log) = 3) =>
        /\ retErrs = log[3].out
        /\ log[3].out = <<>> => Succeeded

C9_Witness ==
    /\ Returned /\ op = "ReadConfig" /\ variant = "multi" /\ Len(log) = 3
    /\ retErrs = <<ValidationError("v2"), ValidationError("v1")>>

\* ------------------------------------------------------------------ C10
\* C10: when resolution fails, ReadConfig returns the resolver's error at
\* once: nothing is read, unmarshal and validate are not called and the
\* caller's object is unchanged.
C10_ResolutionFailureShortCircuits ==
    (op = "ReadConfig" /\ found.err # Nil) =>
        /\ Returned
        /\ Errs = <<found.err>>
        /\ found.err \in {NotFoundError, StatError(argPath, StatErrno(argPath))}
        /\ log = <<>>
        /\ c = ZeroConfig
        /\ content = ""

C10_Witness ==
    /\ op = "ReadConfig" /\ Returned
    /\ found.err = StatError("a", "ENOENT")
    /\ Statable("b") /\ StatableIdx # {}

====
